---- MODULE Spec2Model ----
(***************************************************************************)
(* Model of src/src/stepcount/api.py: the request pipeline                 *)
(* process_csv_data, its two callers upload_csv and process_data, and the  *)
(* process-wide classifier cache get_model.                                *)
(*                                                                         *)
(* Time is counted in integer milliseconds from midnight of the first      *)
(* calendar day.  A sample rate is an exact rational num/den (Hz) with     *)
(* den > 0, so 1.0 / delta.total_seconds() is 1000/delta_ms; the rounding  *)
(* of binary floating point is not modelled.  A row of the frame keeps its *)
(* timestamp and whether its x/y/z values are null.                        *)
(***************************************************************************)
EXTENDS Integers, Sequences, FiniteSets, TLC

VARIABLES
    entry,        \* which endpoint runs the invocation
    input,        \* the upload: [filename, defect]
    request,      \* ProcessingRequest of the invocation
    pc,           \* position of the invocation in upload_csv/process_csv_data
    csv_data,     \* the frame: a sequence of rows [t, na]
    primary,      \* what utils.infer_freq produced for this frame
    sample_rate,  \* effective sample rate (rational), Unset before inference
    rate_from,    \* the branch that produced sample_rate
    resample,     \* locals of the resampling stage: [done, freq_ms, rows_in]
    wear_stats,   \* dict of wear statistics
    result,       \* dict returned by process_csv_data
    exc,          \* exception in flight or handled
    temp_dir,     \* "none" | "exists" | "deleted"
    files,        \* names of the files present in the output directory
    response,     \* ProcessingResponse handed to the caller
    model_cache,  \* global dict: cache key -> classifier object id
    models,       \* classifier objects by id: [key, device, sample_rate, window_len]
    loads,        \* per key, how many times load_model has been entered
    predict_arg,  \* the last call of predict_from_frame: [called, frame, rate]
    inv,          \* concurrent invocations: per coroutine its pc and locals
    running,      \* the coroutine holding the event loop (0: none)
    subject,      \* the value a single routine is applied to, when studied alone
    outcome,      \* what that routine produced
    step          \* the position inside that routine

vars == <<entry, input, request, pc, csv_data, primary, sample_rate, rate_from, resample,
          wear_stats, result, exc, temp_dir, files, response, model_cache, models,
          loads, predict_arg, inv, running, subject, outcome, step>>

unitVars == <<subject, outcome, step>>

pipeVars == <<entry, input, request, pc, csv_data, primary, sample_rate, rate_from, resample,
              wear_stats, result, exc, temp_dir, files, response, predict_arg, unitVars>>

\* everything but unitVars
restVars == <<entry, input, request, pc, csv_data, primary, sample_rate, rate_from, resample,
              wear_stats, result, exc, temp_dir, files, response, predict_arg,
              model_cache, models, loads, inv, running>>

-----------------------------------------------------------------------------
(* Program constants *)

BAND_LO == 1
BAND_HI == 1000
DEFAULT_HZ == 104
SSL_HZ == 30
MIN_RESAMPLE == 10
MIN_RF == 50
MS_PER_SEC == 1000
EXAMPLES == 5
DayMs == 86400000
HourMs == 3600000
MinuteMs == 60000

(* Bounds of the model *)

SmallRows == 3       \* every timestamp pattern is tried on 0..SmallRows rows
WearRows == 25       \* valid rows a day needs to pass exclude_wear_below
NInv == 2            \* concurrent invocations on the event loop
MaxSteps == 2        \* the largest step count of a row of the step series
MaxKids == 2         \* elements of a container handed to convert_pandas_to_native
ValidateRows == 6    \* rows of the frames whose x, y, z columns are validated

-----------------------------------------------------------------------------
(* Rationals *)

Rat(n, d) == IF d < 0 THEN [num |-> -n, den |-> -d] ELSE [num |-> n, den |-> d]
Unset == [num |-> 0, den |-> 0]
IntRate(n) == [num |-> n, den |-> 1]

RatEq(a, b) == a.num * b.den = b.num * a.den

\* r < 1 in line 229 and line 242
BelowBand(r) == r.num < BAND_LO * r.den

\* r > 1000 in line 229 and line 242; written without 1000 * den, which can
\* exceed the integers TLC computes with when den is a span of a day
AboveBand(r) == r.num > 0 /\ r.den <= (r.num - 1) \div BAND_HI

Unreasonable(r) == BelowBand(r) \/ AboveBand(r)

InBand(r) == r.den > 0 /\ ~Unreasonable(r)

-----------------------------------------------------------------------------
(* Frames *)

Row(t) == [t |-> t, na |-> FALSE]

Range(s) == {s[i] : i \in 1..Len(s)}

DayOf(t) == t \div DayMs

\* the first sample is taken 245 ms before midnight, so that longer recordings
\* span two calendar days
T0 == DayMs - 245

\* timestamps of n rows at spacing d, 1-based row i
Regular(n, d) == [i \in 1..n |-> Row(T0 + (i - 1) * d)]

\* the second row repeats the first row's timestamp
Duplicated(n, d) == [i \in 1..n |-> Row(IF i = 2 THEN T0 ELSE T0 + (i - 1) * d)]

\* the first two rows are out of order
Swapped(n, d) ==
    [i \in 1..n |-> Row(IF i = 1 THEN T0 + d ELSE IF i = 2 THEN T0 ELSE T0 + (i - 1) * d)]

Spacings == {0, 1, 10, 2000}

SmallFrames ==
    {Regular(n, d) : n \in 0..SmallRows, d \in Spacings}
        \cup {Duplicated(n, d) : n \in 0..SmallRows, d \in Spacings}
        \cup {Swapped(n, d) : n \in 0..SmallRows, d \in Spacings}

ThresholdRows == {MIN_RESAMPLE - 1, MIN_RESAMPLE, MIN_RF - 1, MIN_RF}

ThresholdFrames ==
    {Regular(n, 10) : n \in ThresholdRows}
        \cup {Duplicated(n, 10) : n \in ThresholdRows}
        \cup {Swapped(n, 10) : n \in ThresholdRows}

Frames == SmallFrames \cup ThresholdFrames

StrictlyIncreasing(frame) ==
    \A i \in 1..(Len(frame) - 1) : frame[i].t < frame[i + 1].t

\* csv_data[csv_data.index >= start_dt] (line 203), rows kept in their order
RowsFrom(frame, start) ==
    LET Keep(r) == r.t >= start IN SelectSeq(frame, Keep)

\* csv_data[csv_data.index <= end_dt] (line 210)
RowsUntil(frame, end) ==
    LET Keep(r) == r.t <= end IN SelectSeq(frame, Keep)

\* pd.to_datetime of a start_time/end_time literal
ParseTime(s) ==
    IF s = "day2" THEN [ok |-> TRUE, t |-> DayMs] ELSE [ok |-> FALSE, t |-> 0]

\* request.start_time and request.start_time.strip() and ... != 'string'
Given(s) == s # "none" /\ s # "" /\ s # "string"

-----------------------------------------------------------------------------
(* Sample-rate inference, lines 214-258 *)

\* csv_data.index.to_series().diff().dropna(): consecutive deltas in ms
TimeDiffs(frame) == [i \in 1..(Len(frame) - 1) |-> frame[i + 1].t - frame[i].t]

\* the k-th smallest element of a non-empty sequence
Kth(s, k) ==
    CHOOSE v \in Range(s) :
        /\ Cardinality({i \in 1..Len(s) : s[i] < v}) < k
        /\ Cardinality({i \in 1..Len(s) : s[i] <= v}) >= k

\* twice time_diffs.median(): the middle element, or the mean of the middle two
Median2(diffs) ==
    LET n == Len(diffs)
    IN IF n % 2 = 1 THEN 2 * Kth(diffs, (n + 1) \div 2)
       ELSE Kth(diffs, n \div 2) + Kth(diffs, n \div 2 + 1)

RECURSIVE SumSeq(_)
SumSeq(s) == IF s = <<>> THEN 0 ELSE Head(s) + SumSeq(Tail(s))

\* 1.0 / median_diff.total_seconds()
MedianRate(diffs) == Rat(2 * MS_PER_SEC, Median2(diffs))

\* 1.0 / mean_diff.total_seconds(), the mean being sum / count
MeanRate(diffs) == Rat(MS_PER_SEC * Len(diffs), SumSeq(diffs))

Inferred(r, from) == [raised |-> FALSE, rate |-> r, from |-> from]
DivisionByZero == [raised |-> TRUE, rate |-> Unset, from |-> "none"]

\* what line 242's test selects once the median rate is known
MedianBranch(r, diffs) ==
    IF Unreasonable(r)
    THEN IF SumSeq(diffs) = 0 THEN DivisionByZero
         ELSE Inferred(MeanRate(diffs), "mean")
    ELSE Inferred(IntRate(DEFAULT_HZ), "default")

\* the except-branch of lines 232-256
ManualRate(frame) ==
    IF Len(frame) > 1
    THEN LET diffs == TimeDiffs(frame)
         IN IF Len(diffs) > 0
            THEN IF Median2(diffs) = 0 THEN DivisionByZero
                 ELSE MedianBranch(MedianRate(diffs), diffs)
            ELSE Inferred(IntRate(DEFAULT_HZ), "default")
    ELSE Inferred(IntRate(DEFAULT_HZ), "default")

\* outcomes of utils.infer_freq followed by lines 219-226: it raises, returns
\* None, or yields a rate
PrimaryOutcomes ==
    {[kind |-> "raise", rate |-> Unset], [kind |-> "none", rate |-> Unset]}
        \cup {[kind |-> "rate", rate |-> r] :
                r \in {Rat(1, 2), IntRate(SSL_HZ), IntRate(100), IntRate(2000)}}
NotCalled == [kind |-> "skipped", rate |-> Unset]

PrimaryUsable(p) == p.kind = "rate" /\ ~Unreasonable(p.rate)

\* Optional[int]: None, or the integer it holds
None == {}
Some(n) == {n}
Value(opt) == CHOOSE n \in opt : TRUE

\* lines 215-258 as a whole
EffectiveRate(req_rate, p, frame) ==
    IF req_rate = None \/ req_rate = Some(0)
    THEN IF PrimaryUsable(p) THEN Inferred(p.rate, "primary") ELSE ManualRate(frame)
    ELSE Inferred(IntRate(Value(req_rate)), "supplied")

-----------------------------------------------------------------------------
(* Resampling, lines 260-278 *)

\* lines 261-264: the frequency the model variant needs, 0 for None
ResampleHz(model_type) == IF model_type = "ssl" THEN SSL_HZ ELSE 0

\* line 266
NeedsResample(model_type, rate) ==
    ResampleHz(model_type) # 0 /\ ~RatEq(rate, IntRate(ResampleHz(model_type)))

TooFewToResampleOffByOne(frame) == Len(frame) <= MIN_RESAMPLE

\* line 268
TooFewToResample(frame) == Len(frame) < MIN_RESAMPLE

\* line 273: int(1000 / resample_hz)
FreqMs(hz) == MS_PER_SEC \div hz

MinOf(S) == CHOOSE x \in S : \A y \in S : x <= y
MaxOf(S) == CHOOSE x \in S : \A y \in S : x >= y

\* line 275: csv_data.resample(f'{freq_ms}ms').mean() on a non-empty frame.
\* Bins are left-closed, of width w, anchored at midnight of the first day;
\* a bin without source rows holds null values.
Resampled(frame, w) ==
    LET ts == {frame[i].t : i \in 1..Len(frame)}
        origin == DayOf(MinOf(ts)) * DayMs
        Bin(t) == (t - origin) \div w
        first == Bin(MinOf(ts))
        last == Bin(MaxOf(ts))
    IN [k \in 1..(last - first + 1) |->
          [t |-> origin + (first + k - 1) * w,
           na |-> \A i \in 1..Len(frame) :
                     Bin(frame[i].t) = first + k - 1 => frame[i].na]]

NotResampled == [done |-> FALSE, freq_ms |-> 0, rows_in |-> 0]

-----------------------------------------------------------------------------
(* Wear statistics and exclusions *)

Valid(frame) == Cardinality({i \in 1..Len(frame) : ~frame[i].na})

ValidInDay(frame, day) ==
    Cardinality({i \in 1..Len(frame) : ~frame[i].na /\ DayOf(frame[i].t) = day})

\* utils.calculate_wear_stats: a mapping from statistic name to value
CalculateWearStats(frame) ==
    [k \in (IF Len(frame) = 0 THEN {"WearTime"} ELSE {"WearTime", "StartTime"}) |->
        IF k = "WearTime" THEN Valid(frame) ELSE frame[1].t]

NoStats == [k \in {} |-> 0]

UpdateKeepingOld(pre, post) ==
    [k \in DOMAIN pre \cup DOMAIN post |-> IF k \in DOMAIN pre THEN pre[k] ELSE post[k]]

\* dict.update of line 299: wear_stats.update(post)
Update(pre, post) ==
    [k \in DOMAIN pre \cup DOMAIN post |-> IF k \in DOMAIN post THEN post[k] ELSE pre[k]]

\* utils.drop_first_last_days: whole calendar days dropped from the ends
DropFirstLastDays(frame, which) ==
    IF Len(frame) = 0 THEN frame
    ELSE LET firstDay == DayOf(frame[1].t)
             lastDay == DayOf(frame[Len(frame)].t)
             Keep(r) ==
                 /\ which \in {"first", "both"} => DayOf(r.t) # firstDay
                 /\ which \in {"last", "both"} => DayOf(r.t) # lastDay
         IN SelectSeq(frame, Keep)

\* utils.flag_wear_below_days: days below the wear threshold are marked invalid
FlagWearBelowDays(frame) ==
    [i \in 1..Len(frame) |->
        [t |-> frame[i].t,
         na |-> frame[i].na \/ ValidInDay(frame, DayOf(frame[i].t)) < WearRows]]

\* lines 292-296
Excluded(frame, req) ==
    LET a == IF Given(req.exclude_first_last)
             THEN DropFirstLastDays(frame, req.exclude_first_last) ELSE frame
    IN IF Given(req.exclude_wear_below) THEN FlagWearBelowDays(a) ELSE a

BelowRFMinimumOffByOne(model_type, frame) == model_type = "rf" /\ Len(frame) < MIN_RF - 1

\* line 284
BelowRFMinimum(model_type, frame) == model_type = "rf" /\ Len(frame) < MIN_RF

\* line 302
NoValidData(frame) == Len(frame) = 0 \/ \A i \in 1..Len(frame) : frame[i].na

-----------------------------------------------------------------------------
(* The classifier cache, lines 69-83 *)

\* line 75: f"{model_type}_{pytorch_device}"
CacheKey(model_type, device) == <<model_type, device>>

Keys == {CacheKey(m, d) : m \in {"rf", "ssl"}, d \in {"cpu", "cuda"}}

\* line 77
Cached(cache, key) == key \in DOMAIN cache

\* line 319: window_sec is an attribute of the loaded classifier (1.0 is the
\* value the code takes when the attribute is absent)
WindowSecs == {1, 10}

\* line 79: the object load_model returns
Loaded(key, ws) ==
    [key |-> key, device |-> "unset", sample_rate |-> Unset, window_sec |-> ws,
     window_len |-> 0]

\* line 80: model.wd.device = pytorch_device
WithDevice(ms, id, device) == [ms EXCEPT ![id].device = device]

\* line 81
Stored(cache, key, id) == [k \in DOMAIN cache \cup {key} |-> IF k = key THEN id ELSE cache[k]]

NoCache == [k \in {} |-> 0]

-----------------------------------------------------------------------------
(* One invocation *)

NoExc == [type |-> "none", at |-> "none", need |-> 0, got |-> 0]
Raise(type, at) == [type |-> type, at |-> at, need |-> 0, got |-> 0]

NoResult ==
    [kind |-> "none", data_points |-> 0, minimum_required |-> 0,
     wear_stats |-> NoStats, sample_rate |-> Unset]

NoResponse ==
    [success |-> FALSE, message |-> "none", results |-> FALSE, output_files |-> {}]

NoPredict == [called |-> FALSE, frame |-> <<>>, rate |-> Unset]

Defects ==
    {"parse", "txyz", "missing_col", "non_numeric", "missing_value", "bad_time",
     "null_time"}

Requests ==
    [model_type : {"rf", "ssl"},
     sample_rate : {None, Some(0), Some(SSL_HZ), Some(2000)},
     start_time : {"none", "not-a-date", "day2"},
     end_time : {"none", "day2"},
     exclude_first_last : {"none", "first", "both"},
     exclude_wear_below : {"none", "12H"},
     pytorch_device : {"cpu"}]

DefaultRequest ==
    [model_type |-> "rf", sample_rate |-> None, start_time |-> "none",
     end_time |-> "none", exclude_first_last |-> "none",
     exclude_wear_below |-> "none", pytorch_device |-> "cpu"]

\* the idle state of the concurrent invocations, which this specification
\* leaves alone
NotSeen == [called |-> FALSE, sample_rate |-> Unset, window_len |-> 0]

InvIdle ==
    [i \in 1..NInv |->
        [pc |-> "idle", key |-> CacheKey("rf", "cpu"), m |-> 0, got |-> 0,
         rate |-> Unset, seen |-> NotSeen]]

\* no routine is studied alone
UnitAtRest ==
    /\ subject = <<>>
    /\ outcome = <<>>
    /\ step = "idle"

InitPipe ==
    /\ entry \in {"upload_csv", "process_data"}
    /\ \/ /\ input = [filename |-> "data.csv", defect |-> "none"]
          /\ request \in Requests
          /\ csv_data \in Frames
       \/ /\ input \in [filename : {"data.csv", "data.txt"}, defect : Defects \cup {"none"}]
          /\ input # [filename |-> "data.csv", defect |-> "none"]
          /\ request = DefaultRequest
          /\ csv_data = Regular(SmallRows, 10)
    /\ pc = "begin"
    /\ primary = NotCalled
    /\ sample_rate = Unset
    /\ rate_from = "none"
    /\ resample = NotResampled
    /\ wear_stats = NoStats
    /\ result = NoResult
    /\ exc = NoExc
    /\ temp_dir = "none"
    /\ files = {}
    /\ response = NoResponse
    /\ predict_arg = NoPredict

Init ==
    /\ InitPipe
    /\ model_cache = NoCache
    /\ models = <<>>
    /\ loads = [k \in Keys |-> 0]
    /\ inv = InvIdle
    /\ running = 0
    /\ UnitAtRest

\* an exception leaves process_csv_data: the with-block is left next
Fail(e) ==
    /\ exc' = e
    /\ pc' = "exit_with"

\* lines 540-574: filename check, request, file.read(), read_csv, mkdtemp
UploadBegin ==
    /\ pc = "begin" /\ entry = "upload_csv"
    /\ IF input.filename # "data.csv"
       THEN /\ exc' = Raise("HTTPException", "filename")
            /\ pc' = "except"
            /\ UNCHANGED temp_dir
       ELSE IF input.defect = "parse"
       THEN /\ exc' = Raise("ParserError", "read_csv")
            /\ pc' = "except"
            /\ UNCHANGED temp_dir
       ELSE /\ temp_dir' = "exists"
            /\ pc' = "validate"
            /\ UNCHANGED exc
    /\ UNCHANGED <<entry, input, request, csv_data, primary, sample_rate, rate_from,
                   resample, wear_stats, result, files, response, predict_arg,
                   model_cache, models, loads, inv, running, unitVars>>

\* lines 656-665: DataFrame(data), mkdtemp
ProcessDataBegin ==
    /\ pc = "begin" /\ entry = "process_data"
    /\ IF input.defect = "parse"
       THEN /\ exc' = Raise("ValueError", "DataFrame")
            /\ pc' = "except"
            /\ UNCHANGED temp_dir
       ELSE /\ temp_dir' = "exists"
            /\ pc' = "validate"
            /\ UNCHANGED exc
    /\ UNCHANGED <<entry, input, request, csv_data, primary, sample_rate, rate_from,
                   resample, wear_stats, result, files, response, predict_arg,
                   model_cache, models, loads, inv, running, unitVars>>

\* lines 109-197: schema mapping, type and missing-value validation, time parsing
Validate ==
    /\ pc = "validate"
    /\ IF input.defect = "txyz" THEN Fail(Raise("ValueError", "txyz"))
       ELSE IF input.defect = "missing_col" THEN Fail(Raise("KeyError", "validate"))
       ELSE IF input.defect # "none" THEN Fail(Raise("ValueError", "validate"))
       ELSE pc' = "trim" /\ UNCHANGED exc
    /\ UNCHANGED <<entry, input, request, csv_data, primary, sample_rate, rate_from,
                   resample, wear_stats, result, temp_dir, files, response,
                   predict_arg, model_cache, models, loads, inv, running, unitVars>>

\* lines 199-212
Trim ==
    /\ pc = "trim"
    /\ LET s == request.start_time
           e == request.end_time
           a == IF Given(s) THEN RowsFrom(csv_data, ParseTime(s).t) ELSE csv_data
       IN IF Given(s) /\ ~ParseTime(s).ok
          THEN Fail(Raise("ValueError", "start_time")) /\ UNCHANGED csv_data
          ELSE IF Given(e) /\ ~ParseTime(e).ok
          THEN Fail(Raise("ValueError", "end_time")) /\ csv_data' = a
          ELSE /\ csv_data' = IF Given(e) THEN RowsUntil(a, ParseTime(e).t) ELSE a
               /\ pc' = "infer"
               /\ UNCHANGED exc
    /\ UNCHANGED <<entry, input, request, primary, sample_rate, rate_from,
                   resample, wear_stats, result, temp_dir, files, response,
                   predict_arg, model_cache, models, loads, inv, running, unitVars>>

\* lines 214-258
Infer ==
    /\ pc = "infer"
    /\ \E p \in PrimaryOutcomes :
        LET called == request.sample_rate = None \/ request.sample_rate = Some(0)
            r == EffectiveRate(request.sample_rate, p, csv_data)
        IN /\ primary' = IF called THEN p ELSE NotCalled
           /\ IF r.raised
              THEN Fail(Raise("ZeroDivisionError", "infer"))
                   /\ UNCHANGED <<sample_rate, rate_from>>
              ELSE /\ sample_rate' = r.rate
                   /\ rate_from' = r.from
                   /\ pc' = "resample"
                   /\ UNCHANGED exc
    /\ UNCHANGED <<entry, input, request, csv_data, resample, wear_stats, result,
                   temp_dir, files, response, predict_arg, model_cache, models,
                   loads, inv, running, unitVars>>

\* lines 260-278
Resample ==
    /\ pc = "resample"
    /\ IF NeedsResample(request.model_type, sample_rate)
       THEN IF TooFewToResample(csv_data)
            THEN /\ Fail([type |-> "ValueError", at |-> "resample",
                          need |-> MIN_RESAMPLE, got |-> Len(csv_data)])
                 /\ UNCHANGED <<csv_data, sample_rate, resample>>
            ELSE LET hz == ResampleHz(request.model_type)
                 IN /\ resample' = [done |-> TRUE, freq_ms |-> FreqMs(hz),
                                    rows_in |-> Len(csv_data)]
                    /\ csv_data' = Resampled(csv_data, FreqMs(hz))
                    /\ sample_rate' = IntRate(hz)
                    /\ pc' = "guard"
                    /\ UNCHANGED exc
       ELSE /\ pc' = "guard"
            /\ UNCHANGED <<csv_data, sample_rate, resample, exc>>
    /\ UNCHANGED <<entry, input, request, primary, rate_from, wear_stats, result,
                   temp_dir, files, response, predict_arg, model_cache, models,
                   loads, inv, running, unitVars>>

\* lines 280-289: wear statistics, then the Random Forest minimum
WearAndGuard ==
    /\ pc = "guard"
    /\ wear_stats' = CalculateWearStats(csv_data)
    /\ IF BelowRFMinimum(request.model_type, csv_data)
       THEN /\ result' = [NoResult EXCEPT !.kind = "insufficient",
                                          !.data_points = Len(csv_data),
                                          !.minimum_required = MIN_RF]
            /\ pc' = "handler"
       ELSE /\ pc' = "exclude"
            /\ UNCHANGED result
    /\ UNCHANGED <<entry, input, request, csv_data, primary, sample_rate, rate_from,
                   resample, exc, temp_dir, files, response, predict_arg,
                   model_cache, models, loads, inv, running, unitVars>>

\* lines 291-299: exclusions, then the statistics are recomputed and merged
Exclude ==
    /\ pc = "exclude"
    /\ csv_data' = Excluded(csv_data, request)
    /\ wear_stats' = Update(wear_stats, CalculateWearStats(csv_data'))
    /\ pc' = "nodata"
    /\ UNCHANGED <<entry, input, request, primary, sample_rate, rate_from, resample,
                   result, exc, temp_dir, files, response, predict_arg,
                   model_cache, models, loads, inv, running, unitVars>>

\* lines 301-306
NoDataCheck ==
    /\ pc = "nodata"
    /\ IF NoValidData(csv_data)
       THEN /\ result' = [NoResult EXCEPT !.kind = "nodata", !.wear_stats = wear_stats]
            /\ pc' = "handler"
       ELSE /\ pc' = "load"
            /\ UNCHANGED result
    /\ UNCHANGED <<entry, input, request, csv_data, primary, sample_rate, rate_from,
                   resample, wear_stats, exc, temp_dir, files, response,
                   predict_arg, model_cache, models, loads, inv, running, unitVars>>

\* line 322: int(np.ceil(sample_rate * window_sec))
WindowLen(rate, ws) == (rate.num * ws + rate.den - 1) \div rate.den

\* lines 319-344: the classifier is given the invocation's sample rate and the
\* window length that follows from it
Configured(ms, id, rate) ==
    [ms EXCEPT ![id].sample_rate = rate,
               ![id].window_len = WindowLen(rate, ms[id].window_sec)]

\* lines 379-382: the sample rate is written again just before the call, the
\* window length is only converted to int
AtPredict(ms, id, rate) == [ms EXCEPT ![id].sample_rate = rate]

\* lines 308-358: get_model, then the classifier is configured; load_model may raise
LoadModel ==
    /\ pc = "load"
    /\ LET key == CacheKey(request.model_type, request.pytorch_device)
       IN IF Cached(model_cache, key)
          THEN /\ models' = Configured(models, model_cache[key], sample_rate)
               /\ pc' = "predict"
               /\ UNCHANGED <<model_cache, loads, exc>>
          ELSE \E ok \in BOOLEAN, ws \in WindowSecs :
                /\ loads' = [loads EXCEPT ![key] = @ + 1]
                /\ IF ok
                   THEN LET id == Len(models) + 1
                        IN /\ model_cache' = Stored(model_cache, key, id)
                           /\ models' = Configured(
                                  WithDevice(Append(models, Loaded(key, ws)), id,
                                             request.pytorch_device),
                                  id, sample_rate)
                           /\ pc' = "predict"
                           /\ UNCHANGED exc
                   ELSE /\ Fail(Raise("ValueError", "load"))
                        /\ UNCHANGED <<model_cache, models>>
    /\ UNCHANGED <<entry, input, request, csv_data, primary, sample_rate, rate_from,
                   resample, wear_stats, result, temp_dir, files, response,
                   predict_arg, inv, running, unitVars>>

\* lines 360-386: predict_from_frame is called with the frame; it may raise
Predict ==
    /\ pc = "predict"
    /\ models' = AtPredict(models,
                            model_cache[CacheKey(request.model_type,
                                                 request.pytorch_device)],
                            sample_rate)
    /\ predict_arg' = [called |-> TRUE, frame |-> csv_data, rate |-> sample_rate]
    /\ \E ok \in BOOLEAN :
        IF ok THEN pc' = "write" /\ UNCHANGED exc
        ELSE Fail(Raise("ValueError", "predict"))
    /\ UNCHANGED <<entry, input, request, csv_data, primary, sample_rate, rate_from,
                   resample, wear_stats, result, temp_dir, files, response,
                   model_cache, loads, inv, running, unitVars>>

StepFiles == {"Steps.csv.gz", "StepTimes.csv.gz"}
SummaryFiles == {"Minutely.csv.gz", "Hourly.csv.gz", "Daily.csv.gz", "Steps.png"}

\* lines 388-494: the step files are written, the summarizers run (any of these
\* collaborators may raise), the roll-ups and the plot are written, the report
\* is compiled
WriteOutputs ==
    /\ pc = "write"
    /\ \E ok \in BOOLEAN :
        IF ok
        THEN /\ files' = StepFiles \cup SummaryFiles
             /\ result' = [NoResult EXCEPT !.kind = "results",
                                           !.wear_stats = wear_stats,
                                           !.sample_rate = sample_rate]
             /\ pc' = "handler"
             /\ UNCHANGED exc
        ELSE /\ files' = StepFiles
             /\ Fail(Raise("Exception", "summaries"))
             /\ UNCHANGED result
    /\ UNCHANGED <<entry, input, request, csv_data, primary, sample_rate, rate_from,
                   resample, wear_stats, temp_dir, response, predict_arg,
                   model_cache, models, loads, inv, running, unitVars>>

\* lines 579-600 and 670-684: the response is built inside the with-block
Handler ==
    /\ pc = "handler"
    /\ response' =
         IF result.kind \in {"insufficient", "nodata"}
         THEN [success |-> FALSE, message |-> result.kind, results |-> FALSE,
               output_files |-> {}]
         ELSE [success |-> TRUE, message |-> "Processing completed successfully",
               results |-> TRUE,
               output_files |-> IF entry = "upload_csv" THEN files ELSE {}]
    /\ pc' = "exit_with"
    /\ UNCHANGED <<entry, input, request, csv_data, primary, sample_rate, rate_from,
                   resample, wear_stats, result, exc, temp_dir, files, predict_arg,
                   model_cache, models, loads, inv, running, unitVars>>

WithExitOnReturnOnly(dir, fs, raised) ==
    IF raised THEN [temp_dir |-> dir, files |-> fs] ELSE [temp_dir |-> "deleted", files |-> {}]

\* TemporaryDirectory.__exit__ of lines 572 and 663: the directory and its
\* content are removed, whether the block returned or raised
WithExit(dir, fs, raised) == [temp_dir |-> "deleted", files |-> {}]

ExitWith ==
    /\ pc = "exit_with"
    /\ temp_dir' = WithExit(temp_dir, files, exc # NoExc).temp_dir
    /\ files' = WithExit(temp_dir, files, exc # NoExc).files
    /\ pc' = IF exc # NoExc THEN "except" ELSE "done"
    /\ UNCHANGED <<entry, input, request, csv_data, primary, sample_rate, rate_from,
                   resample, wear_stats, result, exc, response, predict_arg,
                   model_cache, models, loads, inv, running, unitVars>>

\* pd.errors.ParserError derives from ValueError, so the clause of line 602
\* takes it before the clause of line 628 can
IsValueError(e) == e.type \in {"ValueError", "ParserError"}

\* lines 602-646 and 686-691: the message the except clauses build
ErrorMessage(e, ep) ==
    IF ep = "process_data" THEN "Error processing data"
    ELSE IF IsValueError(e)
    THEN IF e.at = "txyz" THEN "Column configuration error" ELSE "Data validation error"
    ELSE IF e.type = "KeyError" THEN "Column error"
    ELSE "Processing error"

\* lines 602, 634 and 640 (686 in process_data): the last clause is `except
\* Exception`, and every exception raised within the try block, fastapi's
\* HTTPException included, derives from Exception
Caught(e) == e.type \in {"ValueError", "ParserError", "KeyError", "HTTPException", "Exception"}

\* an exception the clauses catch becomes a ProcessingResponse; any other would
\* leave the endpoint and reach the caller as an HTTP error
Except ==
    /\ pc = "except"
    /\ response' = IF Caught(exc)
                   THEN [success |-> FALSE, message |-> ErrorMessage(exc, entry),
                         results |-> FALSE, output_files |-> {}]
                   ELSE response
    /\ pc' = "done"
    /\ UNCHANGED <<entry, input, request, csv_data, primary, sample_rate, rate_from,
                   resample, wear_stats, result, exc, temp_dir, files, predict_arg,
                   model_cache, models, loads, inv, running, unitVars>>

Next ==
    \/ UploadBegin
    \/ ProcessDataBegin
    \/ Validate
    \/ Trim
    \/ Infer
    \/ Resample
    \/ WearAndGuard
    \/ Exclude
    \/ NoDataCheck
    \/ LoadModel
    \/ Predict
    \/ WriteOutputs
    \/ Handler
    \/ ExitWith
    \/ Except

Spec == Init /\ [][Next]_vars

-----------------------------------------------------------------------------
(* Properties of the sample-rate inference *)

\* the inference stage has run for the frame now in csv_data
InferenceDone == pc = "resample" \/ exc.at = "infer"

\* utils.infer_freq was called and gave nothing usable
PrimaryFailed == primary # NotCalled /\ ~PrimaryUsable(primary)

MedianUsable(frame) ==
    /\ Len(frame) >= 2
    /\ Median2(TimeDiffs(frame)) # 0
    /\ InBand(MedianRate(TimeDiffs(frame)))

MeanUsable(frame) ==
    /\ Len(frame) >= 2
    /\ SumSeq(TimeDiffs(frame)) # 0
    /\ InBand(MeanRate(TimeDiffs(frame)))

\* C1: when no rate is supplied, the primary inference is unusable and the
\* median of the consecutive deltas converts to a rate inside [1, 1000] Hz,
\* the effective sample rate is that median-based rate.
C1_MedianFallbackIsUsed ==
    (InferenceDone /\ PrimaryFailed /\ MedianUsable(csv_data))
        => (exc = NoExc /\ RatEq(sample_rate, MedianRate(TimeDiffs(csv_data))))

\* C2: when no rate is supplied and the primary inference, the median estimate
\* and the mean estimate are all unusable, the pipeline does not fail and the
\* effective sample rate is the default 104 Hz.
C2_DefaultWhenAllUnusable ==
    (InferenceDone /\ PrimaryFailed /\ ~MedianUsable(csv_data) /\ ~MeanUsable(csv_data))
        => (exc = NoExc /\ sample_rate = IntRate(104))

\* the invocation is at the Resampler decision or beyond it, up to the call of
\* the classifier
AtOrPastResampler == pc \in {"resample", "guard", "exclude", "nodata", "load", "predict"}

\* C3: from the Resampler decision to the Model Invocation Adapter the
\* effective sample rate f satisfies 1 <= f <= 1000, whichever path produced it.
C3_RateInBand ==
    (AtOrPastResampler \/ predict_arg.called)
        => InBand(IF predict_arg.called THEN predict_arg.rate ELSE sample_rate)

\* C4: whenever predict_from_frame is called, the timestamp index of the frame
\* it is given is strictly increasing (a duplicate or out-of-order pair was
\* rejected before).
C4_PredictFrameIncreasing ==
    predict_arg.called => StrictlyIncreasing(predict_arg.frame)

-----------------------------------------------------------------------------
(* Properties of the Resampler *)

C6_GridMatchesRate ==
    resample.done =>
        /\ resample.freq_ms * SSL_HZ = 1000
        /\ RatEq(Rat(1000, resample.freq_ms), sample_rate)

-----------------------------------------------------------------------------
(* Properties of the guards and of the exclusion stage *)

NothingLoaded == \A k \in Keys : loads[k] = 0

\* C7: with the rf variant and fewer than 50 rows at the Minimum-Data Guard,
\* process_csv_data raises nothing and returns a structured result naming the
\* actual row count and the required 50; the classifier is neither loaded nor
\* invoked and no output artifact is written.
C7_InsufficientDataResult ==
    /\ [][(pc = "guard" /\ request.model_type = "rf" /\ Len(csv_data) <= 49) =>
            /\ result'.kind = "insufficient"
            /\ result'.data_points = Len(csv_data)
            /\ result'.minimum_required = 50
            /\ exc' = NoExc
            /\ pc' = "handler"]_vars
    /\ [](result.kind = "insufficient" =>
            /\ exc = NoExc
            /\ NothingLoaded
            /\ model_cache = NoCache
            /\ ~predict_arg.called
            /\ files = {}
            /\ (pc = "done" => ~response.success /\ response.output_files = {}))

\* an rf invocation on 49 rows has ended with the structured result
C7_Witness ==
    /\ pc = "done"
    /\ request.model_type = "rf"
    /\ result.kind = "insufficient"
    /\ result.data_points = 49
    /\ Len(csv_data) = 49

\* C8: if after the exclusion policies the frame is empty or every row's x/y/z
\* is null, process_csv_data returns, without raising and without invoking the
\* classifier, a structured no-valid-data result carrying the wear statistics:
\* the pre-exclusion statistics merged with the post-exclusion ones,
\* post-exclusion values winning on equal keys and keys present only before
\* exclusion retained.
C8_NoValidDataResult ==
    /\ [][pc = "exclude" =>
            LET pre == wear_stats
                post == CalculateWearStats(csv_data')
            IN /\ DOMAIN wear_stats' = DOMAIN pre \cup DOMAIN post
               /\ \A k \in DOMAIN post : wear_stats'[k] = post[k]
               /\ \A k \in DOMAIN pre \ DOMAIN post : wear_stats'[k] = pre[k]]_vars
    /\ [][(pc = "nodata" /\ (Len(csv_data) = 0 \/ \A i \in 1..Len(csv_data) : csv_data[i].na)) =>
            /\ result'.kind = "nodata"
            /\ result'.wear_stats = wear_stats
            /\ exc' = NoExc
            /\ pc' = "handler"]_vars
    /\ [](result.kind = "nodata" =>
            /\ exc = NoExc
            /\ NothingLoaded
            /\ ~predict_arg.called
            /\ (pc = "done" => ~response.success))

\* an invocation whose exclusion emptied the frame has ended with the
\* no-valid-data result: the statistics keep the start time computed before the
\* exclusion and hold the wear time computed after it
C8_Witness ==
    /\ pc = "done"
    /\ result.kind = "nodata"
    /\ Len(csv_data) = 0
    /\ Given(request.exclude_first_last)
    /\ "StartTime" \in DOMAIN result.wear_stats
    /\ result.wear_stats["WearTime"] = 0

-----------------------------------------------------------------------------
(* Properties of the temporary output area *)

\* C9: an invocation of upload_csv or process_data that created a temporary
\* output area has deleted the area and every file in it by the time it ends,
\* on every exit path.
C9_TempAreaDeleted ==
    pc = "done" => (temp_dir \in {"none", "deleted"} /\ files = {})

\* an invocation that failed after the step files were written has ended, and
\* its temporary area is gone
C9_Witness ==
    /\ pc = "done"
    /\ exc.at = "summaries"
    /\ temp_dir = "deleted"
    /\ files = {}

-----------------------------------------------------------------------------
(* Concurrent invocations on the event loop                                *)
(*                                                                         *)
(* upload_csv and process_data are coroutines (async def) of one event     *)
(* loop (uvicorn.run, line 844): a coroutine keeps the loop's thread until *)
(* it awaits or ends.  The only await of an invocation is file.read() at   *)
(* line 568; process_csv_data and get_model contain none.  inv[i].pc is    *)
(* the position of coroutine i, inv[i].m the local `model` of get_model,   *)
(* inv[i].got the object get_model returned to it, inv[i].rate its local   *)
(* sample_rate, inv[i].seen the classifier's attributes at the moment its  *)
(* predict_from_frame call was made.                                       *)

Invs == 1..NInv

AwaitPointsWithLoad == {"reading", "load"}

AwaitPointsBeforePredict == {"reading", "predict"}

\* the positions at which a coroutine is suspended: line 568
AwaitPoints == {"reading"}

Final == {"done", "failed"}

\* who holds the loop after coroutine i has moved to position p
Holder(i, p) == IF p \in AwaitPoints \cup Final THEN 0 ELSE i

Moved(i, p) ==
    /\ inv' = [inv EXCEPT ![i].pc = p]
    /\ running' = Holder(i, p)

\* a request arrives: lines 540-568, up to the await of file.read()
Arrive(i) ==
    /\ running = 0
    /\ inv[i].pc = "idle"
    /\ \E k \in Keys :
        /\ inv' = [inv EXCEPT ![i].pc = "reading", ![i].key = k]
        /\ running' = Holder(i, "reading")
    /\ UNCHANGED <<pipeVars, model_cache, models, loads>>

\* the event loop resumes a suspended coroutine
Resume(i) ==
    /\ running = 0
    /\ inv[i].pc \in AwaitPoints
    /\ running' = i
    /\ UNCHANGED <<pipeVars, model_cache, models, loads, inv>>

\* the sample rates the inference stage hands to the invocations
InvRates == {IntRate(SSL_HZ), IntRate(DEFAULT_HZ), Rat(201, 2)}

\* lines 569-306: the pipeline up to the model stage, which fixes the local
\* sample_rate; it may end the invocation (an early result or an exception)
\* before get_model is called
BeforeModel(i) ==
    /\ running = i
    /\ inv[i].pc = "reading"
    /\ \/ Moved(i, "done")
       \/ \E r \in InvRates :
            /\ inv' = [inv EXCEPT ![i].pc = "check", ![i].rate = r]
            /\ running' = Holder(i, "check")
    /\ UNCHANGED <<pipeVars, model_cache, models, loads>>

\* line 77
CheckCache(i) ==
    /\ running = i
    /\ inv[i].pc = "check"
    /\ Moved(i, IF Cached(model_cache, inv[i].key) THEN "ret" ELSE "load")
    /\ UNCHANGED <<pipeVars, model_cache, models, loads>>

\* lines 78-79: load_model runs; it returns a new classifier or raises, and the
\* exception ends the invocation (line 358)
LoadCall(i) ==
    /\ running = i
    /\ inv[i].pc = "load"
    /\ loads' = [loads EXCEPT ![inv[i].key] = @ + 1]
    /\ \E ok \in BOOLEAN, ws \in WindowSecs :
        IF ok
        THEN /\ models' = Append(models, Loaded(inv[i].key, ws))
             /\ inv' = [inv EXCEPT ![i].pc = "setdev", ![i].m = Len(models) + 1]
             /\ running' = Holder(i, "setdev")
        ELSE /\ Moved(i, "failed")
             /\ UNCHANGED models
    /\ UNCHANGED <<pipeVars, model_cache>>

\* line 80
SetDevice(i) ==
    /\ running = i
    /\ inv[i].pc = "setdev"
    /\ models' = WithDevice(models, inv[i].m, inv[i].key[2])
    /\ Moved(i, "store")
    /\ UNCHANGED <<pipeVars, model_cache, loads>>

\* line 81
StoreModel(i) ==
    /\ running = i
    /\ inv[i].pc = "store"
    /\ model_cache' = Stored(model_cache, inv[i].key, inv[i].m)
    /\ Moved(i, "ret")
    /\ UNCHANGED <<pipeVars, models, loads>>

\* line 83 and line 310: the caller receives the cache entry
ReturnModel(i) ==
    /\ running = i
    /\ inv[i].pc = "ret"
    /\ inv' = [inv EXCEPT ![i].pc = "has_model", ![i].got = model_cache[inv[i].key]]
    /\ running' = Holder(i, "has_model")
    /\ UNCHANGED <<pipeVars, model_cache, models, loads>>

\* lines 312-356: the classifier handed over is configured for this invocation
Configure(i) ==
    /\ running = i
    /\ inv[i].pc = "has_model"
    /\ models' = Configured(models, inv[i].got, inv[i].rate)
    /\ Moved(i, "predict")
    /\ UNCHANGED <<pipeVars, model_cache, loads>>

\* lines 360-384: the last writes to the classifier, then predict_from_frame
\* runs with the attributes the classifier has at that moment
PredictCall(i) ==
    /\ running = i
    /\ inv[i].pc = "predict"
    /\ models' = AtPredict(models, inv[i].got, inv[i].rate)
    /\ inv' = [inv EXCEPT ![i].pc = "predicted",
                          ![i].seen = [called |-> TRUE,
                                       sample_rate |-> models'[inv[i].got].sample_rate,
                                       window_len |-> models'[inv[i].got].window_len]]
    /\ running' = Holder(i, "predicted")
    /\ UNCHANGED <<pipeVars, model_cache, loads>>

\* lines 385-600: the rest of the invocation, which has no await
Finish(i) ==
    /\ running = i
    /\ inv[i].pc = "predicted"
    /\ Moved(i, "done")
    /\ UNCHANGED <<pipeVars, model_cache, models, loads>>

\* the pipeline variables of the single-invocation specification, at rest
PipeAtRest ==
    /\ entry = "upload_csv"
    /\ input = [filename |-> "data.csv", defect |-> "none"]
    /\ request = DefaultRequest
    /\ csv_data = <<>>
    /\ pc = "idle"
    /\ primary = NotCalled
    /\ sample_rate = Unset
    /\ rate_from = "none"
    /\ resample = NotResampled
    /\ wear_stats = NoStats
    /\ result = NoResult
    /\ exc = NoExc
    /\ temp_dir = "none"
    /\ files = {}
    /\ response = NoResponse
    /\ predict_arg = NoPredict

InitCache ==
    /\ PipeAtRest
    /\ model_cache = NoCache
    /\ models = <<>>
    /\ loads = [k \in Keys |-> 0]
    /\ inv = InvIdle
    /\ running = 0
    /\ UnitAtRest

NextCache ==
    \E i \in Invs :
        \/ Arrive(i)
        \/ Resume(i)
        \/ BeforeModel(i)
        \/ CheckCache(i)
        \/ LoadCall(i)
        \/ SetDevice(i)
        \/ StoreModel(i)
        \/ ReturnModel(i)
        \/ Configure(i)
        \/ PredictCall(i)
        \/ Finish(i)

SpecCache == InitCache /\ [][NextCache]_vars

-----------------------------------------------------------------------------
(* Properties of the classifier cache *)

ObjectsOf(k) == {id \in 1..Len(models) : models[id].key = k}

FailedLoads(k) == {i \in Invs : inv[i].pc = "failed" /\ inv[i].key = k}

\* every caller of a key holds the same object
SameObjectPerKey ==
    \A i, j \in Invs :
        (inv[i].got # 0 /\ inv[j].got # 0 /\ inv[i].key = inv[j].key)
            => inv[i].got = inv[j].got

\* what a caller obtained from the cache has its device set
DeviceSetWhenObtained ==
    \A i \in Invs : inv[i].got # 0 => models[inv[i].got].device = inv[i].key[2]

\* C10 as stated: under every interleaving the classifier loader runs at most
\* once per key, every caller for a key receives the same classifier object,
\* and no caller obtains a cache entry before its device has been set.
C10_LoaderRunsAtMostOnce ==
    /\ \A k \in Keys : loads[k] <= 1
    /\ SameObjectPerKey
    /\ DeviceSetWhenObtained

\* C10 as amended: under every interleaving at most one load per key
\* completes, and the loader runs again for a key only after an earlier run for
\* that key raised; every caller for a key receives the same classifier
\* object, and no caller obtains a cache entry before its device has been set.
C10_OneClassifierPerKey ==
    /\ \A k \in Keys :
        /\ Cardinality(ObjectsOf(k)) <= 1
        /\ loads[k] <= 1 + Cardinality(FailedLoads(k))
    /\ SameObjectPerKey
    /\ DeviceSetWhenObtained

\* concurrent first use of one key: invocation j has been handed the classifier
\* it loaded while invocation i, arrived for the same key, is still suspended
\* at its await and has not called get_model yet
C10_Witness ==
    \E i, j \in Invs :
        /\ i # j
        /\ inv[i].key = inv[j].key
        /\ inv[i].pc = "reading"
        /\ inv[j].pc = "has_model"
        /\ inv[j].got # 0
        /\ loads[inv[j].key] = 1

-----------------------------------------------------------------------------
(* The classifier's configuration under concurrent invocations *)

\* the window length invocation i configures on the object it was handed
OwnWindowLen(i) == WindowLen(inv[i].rate, models[inv[i].got].window_sec)

\* C11: for every interleaving of concurrent invocations sharing one cached
\* classifier, the sample rate and window length the classifier holds when an
\* invocation's prediction call is made are the values that invocation
\* configured, never values written by another invocation.
C11_PredictsWithOwnConfiguration ==
    \A i \in Invs :
        /\ inv[i].pc = "predict" =>
              /\ models[inv[i].got].sample_rate = inv[i].rate
              /\ models[inv[i].got].window_len = OwnWindowLen(i)
        /\ inv[i].seen.called =>
              /\ inv[i].seen.sample_rate = inv[i].rate
              /\ inv[i].seen.window_len = OwnWindowLen(i)

\* invocation j has made its prediction call on an object that invocation i,
\* which arrived with another sample rate and window length, configured and
\* used before
C11_Witness ==
    \E i, j \in Invs :
        /\ i # j
        /\ inv[i].got # 0
        /\ inv[i].got = inv[j].got
        /\ inv[i].seen.called
        /\ inv[j].pc = "predicted"
        /\ inv[i].rate # inv[j].rate
        /\ inv[i].seen.window_len # inv[j].seen.window_len
        /\ models[inv[j].got].window_len = inv[j].seen.window_len

-----------------------------------------------------------------------------
(* Validation of the accelerometer columns, lines 127-164, studied alone   *)
(*                                                                         *)
(* subject is the frame after renaming, as [x, y, z -> sequence of cells]; *)
(* row i of the file is position i of each sequence and has index label    *)
(* i - 1 (the RangeIndex read_csv builds).  A cell is "float" (a number),  *)
(* "digits" (a string to_numeric converts), "text" (a string to_numeric    *)
(* cannot convert) or "nan" (missing).                                     *)

XYZ == {"x", "y", "z"}

\* line 130: a column of numbers and missing values has a numeric dtype
IsNumericDtype(col) == \A i \in 1..Len(col) : col[i] \in {"float", "nan"}

\* line 134: pd.to_numeric(errors='coerce')
ToNumeric(col) ==
    [i \in 1..Len(col) |->
        IF col[i] = "text" THEN "nan" ELSE IF col[i] = "digits" THEN "float" ELSE col[i]]

\* lines 137 and 155: the index labels, in row order, of the rows the mask selects
RECURSIVE IndexList(_, _, _)
IndexList(mask, i, n) ==
    IF i > n THEN <<>>
    ELSE (IF mask[i] THEN <<i - 1>> ELSE <<>>) \o IndexList(mask, i + 1, n)

\* line 137: failed_mask = coerced.isnull() & original.notna()
FailedMask(original, coerced) ==
    [i \in 1..Len(original) |-> coerced[i] = "nan" /\ original[i] # "nan"]

\* line 155: isnull()
NullMask(col) == [i \in 1..Len(col) |-> col[i] = "nan"]

\* lines 139 and 156: [:5]
FirstExamples(indices) == SubSeq(indices, 1, MinOf({EXAMPLES, Len(indices)}))

UserFriendlyZeroBased(idx) == idx

\* lines 142 and 158: idx + 1
UserFriendly(idx) == idx + 1

UserFriendlyIndices(indices) == [k \in 1..Len(indices) |-> UserFriendly(indices[k])]

\* lines 129-145: the columns that get an entry in non_numeric_issues
NonNumericColumns(frame) ==
    {c \in XYZ : /\ ~IsNumericDtype(frame[c])
                 /\ \E i \in 1..Len(frame[c]) :
                        FailedMask(frame[c], ToNumeric(frame[c]))[i]}

\* lines 139-143: the rows an entry names
NonNumericIssues(frame) ==
    [c \in NonNumericColumns(frame) |->
        UserFriendlyIndices(FirstExamples(
            IndexList(FailedMask(frame[c], ToNumeric(frame[c])), 1, Len(frame[c]))))]

\* lines 130-134: the frame after the coercion of its non-numeric columns
Coerced(frame) ==
    [c \in XYZ |-> IF IsNumericDtype(frame[c]) THEN frame[c] ELSE ToNumeric(frame[c])]

\* lines 154-159
MissingIssues(frame) ==
    [c \in {d \in XYZ : \E i \in 1..Len(frame[d]) : NullMask(frame[d])[i]} |->
        UserFriendlyIndices(FirstExamples(IndexList(NullMask(frame[c]), 1, Len(frame[c]))))]

Columns(kinds) == [1..ValidateRows -> kinds]

\* columns with one kind of cell, or with one unlike cell in the second row
PlainColumns ==
    {[i \in 1..ValidateRows |-> k] : k \in {"float", "digits", "text"}}
        \cup {[i \in 1..ValidateRows |-> IF i = 2 THEN k ELSE "float"] : k \in {"text", "nan"}}

\* the frames validated: one column takes every arrangement of numbers, text
\* and missing values, the other two are plain
ValidateFrames ==
    {[d \in XYZ |-> IF d = c THEN col ELSE IF d = e THEN p ELSE q] :
        c \in XYZ, e \in XYZ, col \in Columns({"float", "text", "nan"}),
        p \in PlainColumns, q \in PlainColumns}

NoError == [error |-> "none", issues |-> <<>>]

InitValidate ==
    /\ PipeAtRest
    /\ model_cache = NoCache
    /\ models = <<>>
    /\ loads = [k \in Keys |-> 0]
    /\ inv = InvIdle
    /\ running = 0
    /\ subject \in ValidateFrames
    /\ outcome = NoError
    /\ step = "types"

\* lines 127-150
ValidateTypes ==
    /\ step = "types"
    /\ IF NonNumericColumns(subject) # {}
       THEN /\ outcome' = [error |-> "Data type validation failed",
                           issues |-> NonNumericIssues(subject)]
            /\ step' = "raised"
            /\ UNCHANGED subject
       ELSE /\ subject' = Coerced(subject)
            /\ step' = "missing"
            /\ UNCHANGED outcome
    /\ UNCHANGED restVars

\* lines 152-164
CheckMissing ==
    /\ step = "missing"
    /\ IF DOMAIN MissingIssues(subject) # {}
       THEN /\ outcome' = [error |-> "Missing data found", issues |-> MissingIssues(subject)]
            /\ step' = "raised"
       ELSE /\ step' = "time"
            /\ UNCHANGED outcome
    /\ UNCHANGED <<restVars, subject>>

NextValidate == ValidateTypes \/ CheckMissing

SpecValidate == InitValidate /\ [][NextValidate]_vars

\* the rows of column c the error names
ReportedRows(c) ==
    IF c \in DOMAIN outcome.issues
    THEN {outcome.issues[c][k] : k \in 1..Len(outcome.issues[c])}
    ELSE {}

\* the rows of column c holding text
TextRows(c) == {r \in 1..ValidateRows : subject[c][r] = "text"}

SomeText == \E c \in XYZ : TextRows(c) # {}

\* C12 as stated: when x, y or z holds a non-numeric value, validation fails
\* with the type-coercion error before any later stage runs, and the error
\* names the 1-based row of every such value, whatever its column and however
\* many offending values precede it.
C12_EveryOffenderReported ==
    (step # "types" /\ SomeText) =>
        /\ step = "raised"
        /\ outcome.error = "Data type validation failed"
        /\ \A c \in XYZ : ReportedRows(c) = TextRows(c)

\* C12 as amended: when x, y or z holds a non-numeric value, validation fails
\* with the type-coercion error before any later stage runs, and for each
\* column the error names the 1-based rows of its first five offending values
\* in row order, and no other row.
C12_FirstFiveOffendersReported ==
    (step # "types" /\ SomeText) =>
        /\ step = "raised"
        /\ outcome.error = "Data type validation failed"
        /\ \A c \in XYZ :
            ReportedRows(c) =
                {r \in TextRows(c) : Cardinality({q \in TextRows(c) : q < r}) < EXAMPLES}

\* validation has failed on a frame with more than five offending values in one
\* column and an offending value in another: the first five rows of the one and
\* the row of the other are named
C12_Witness ==
    /\ step = "raised"
    /\ outcome.error = "Data type validation failed"
    /\ \E c, d \in XYZ :
        /\ c # d
        /\ Cardinality(TextRows(c)) > EXAMPLES
        /\ Cardinality(ReportedRows(c)) = EXAMPLES
        /\ TextRows(c) \ ReportedRows(c) # {}
        /\ ReportedRows(d) = {2}

-----------------------------------------------------------------------------
(* Column mapping and renaming, lines 109-125, studied alone               *)
(*                                                                         *)
(* subject is [columns, usecols]: the header of the input (read_csv makes  *)
(* the names distinct) and request.txyz split at the commas.  outcome is   *)
(* the header after renaming, each column as [name, src] where src is the  *)
(* input column whose values it holds; rename moves no row.                *)

\* lines 121-124: the canonical names, by position in usecols
Canonical == <<"time", "x", "y", "z">>

CanonicalNames == {Canonical[k] : k \in 1..Len(Canonical)}

\* lines 120-125: the dict literal; a key written twice keeps its last value
RenameDict(usecols) ==
    [name \in {usecols[k] : k \in 1..Len(Canonical)} |->
        Canonical[MaxOf({k \in 1..Len(Canonical) : usecols[k] = name})]]

\* line 120: DataFrame.rename(columns=dict) renames each column the dict has
\* as a key and leaves the others alone
Renamed(columns, usecols) ==
    [i \in 1..Len(columns) |->
        [name |-> IF columns[i] \in DOMAIN RenameDict(usecols)
                  THEN RenameDict(usecols)[columns[i]]
                  ELSE columns[i],
         src |-> columns[i]]]

\* line 115
MissingCols(columns, usecols) ==
    {usecols[k] : k \in 1..Len(usecols)} \ {columns[i] : i \in 1..Len(columns)}

Headers ==
    {<<"t", "a", "b", "c">>, <<"t", "a", "b", "c", "d">>, <<"t", "a", "b", "c", "x">>,
     <<"t", "a", "b", "c", "time">>, <<"time", "x", "y", "z">>,
     <<"x", "time", "y", "z">>}

MappingNames == {"t", "a", "b", "c", "d", "time", "x", "y", "z"}

\* line 110: request.txyz.split(',')
Mappings == [1..Len(Canonical) -> MappingNames] \cup [1..Len(Canonical) - 1 -> MappingNames]

InitRename ==
    /\ PipeAtRest
    /\ model_cache = NoCache
    /\ models = <<>>
    /\ loads = [k \in Keys |-> 0]
    /\ inv = InvIdle
    /\ running = 0
    /\ subject \in [columns : Headers, usecols : Mappings]
    /\ outcome = <<>>
    /\ step = "mapping"

\* lines 109-117
CheckMapping ==
    /\ step = "mapping"
    /\ step' = IF Len(subject.usecols) # Len(Canonical) THEN "ValueError"
               ELSE IF MissingCols(subject.columns, subject.usecols) # {} THEN "KeyError"
               ELSE "rename"
    /\ UNCHANGED <<restVars, subject, outcome>>

\* lines 119-125
Rename ==
    /\ step = "rename"
    /\ outcome' = Renamed(subject.columns, subject.usecols)
    /\ step' = "renamed"
    /\ UNCHANGED <<restVars, subject>>

NextRename == CheckMapping \/ Rename

SpecRename == InitRename /\ [][NextRename]_vars

\* the columns of the renamed frame called name
Called(name) == {i \in 1..Len(outcome) : outcome[i].name = name}

\* the columns of the renamed frame holding the values of input column src
Holding(src) == {i \in 1..Len(outcome) : outcome[i].src = src}

Unmapped ==
    {subject.columns[i] : i \in 1..Len(subject.columns)}
        \ {subject.usecols[k] : k \in 1..Len(subject.usecols)}

\* C13: for every 4-name mapping all of whose names exist as input columns
\* (mappings that repeat a name and inputs with an unmapped column called
\* time, x, y or z included), the frame after renaming has exactly one column
\* for each of time, x, y, z, holding the mapped source column's values, plus
\* every unmapped input column unchanged.
C13_OneColumnPerCanonicalName ==
    step = "renamed" =>
        /\ \A k \in 1..Len(Canonical) :
            /\ Cardinality(Called(Canonical[k])) = 1
            /\ \A i \in Called(Canonical[k]) : outcome[i].src = subject.usecols[k]
        /\ \A u \in Unmapped :
            /\ Cardinality(Holding(u)) = 1
            /\ u \notin CanonicalNames => Holding(u) = Called(u)

-----------------------------------------------------------------------------
(* The minutely, hourly and daily roll-ups, lines 448-468, studied alone   *)
(*                                                                         *)
(* subject is the Steps column of minutely_data before resampling (line    *)
(* 450): per candidate timestamp whether the frame has a row there and the *)
(* row's step count, None where Y has no value for the row (NaN).  A table *)
(* of buckets is a function from the bucket's number (its start divided by *)
(* its width) to the step total.                                           *)

\* the timestamps a row may have: before an hour boundary, twice before
\* midnight, at midnight, and once more in the first minute of the next day
SampleTimes ==
    <<DayMs - HourMs - 30000, DayMs - 2 * MinuteMs + 100, DayMs - 1, DayMs,
      DayMs + 30000>>

Samples == 1..Len(SampleTimes)

StepSeries ==
    {s \in [Samples -> {[row |-> FALSE, steps |-> None]}
                        \cup [row : {TRUE}, steps : {None} \cup {Some(n) : n \in 0..MaxSteps}]] :
        \E i \in Samples : s[i].row}

RowsOf(series) == {i \in Samples : series[i].row}

RECURSIVE SumOver(_, _)
SumOver(f, S) ==
    IF S = {} THEN 0
    ELSE LET e == CHOOSE x \in S : TRUE IN f[e] + SumOver(f, S \ {e})

StepsMean(f, S) == IF S = {} THEN 0 ELSE SumOver(f, S) \div Cardinality(S)

\* lines 453, 459 and 465: 'Steps': 'sum'; the sum of no value is 0
StepsSum(f, S) == SumOver(f, S)

\* the number of the bucket of the given width that a time falls in; resampling
\* bins are aligned to midnight
Bucket(t, width) == t \div width

\* line 452, 'Steps' of resample('1T').agg(...).fillna(0): one bucket per
\* minute from the first row's minute to the last row's, NaN rows skipped
MinutelySteps(series) ==
    LET at == [i \in Samples |-> Bucket(SampleTimes[i], MinuteMs)]
        val == [i \in Samples |-> IF series[i].steps = None THEN 0 ELSE Value(series[i].steps)]
        first == MinOf({at[i] : i \in RowsOf(series)})
        last == MaxOf({at[i] : i \in RowsOf(series)})
    IN [m \in first..last |->
            StepsSum(val, {i \in RowsOf(series) : at[i] = m /\ series[i].steps # None})]

\* lines 458-468: a table of buckets resampled to wider buckets, per wider
\* bucket from the first to the last
Coarser(table, per) ==
    LET first == MinOf({b \div per : b \in DOMAIN table})
        last == MaxOf({b \div per : b \in DOMAIN table})
    IN [c \in first..last |-> StepsSum(table, {b \in DOMAIN table : b \div per = c})]

\* line 458: minutely_data.resample('1H')
HourlySteps(minutely) == Coarser(minutely, HourMs \div MinuteMs)

\* line 464: minutely_data.resample('1D')
DailySteps(minutely) == Coarser(minutely, DayMs \div MinuteMs)

NoTables == [minutely |-> <<>>, hourly |-> <<>>, daily |-> <<>>]

InitRollUp ==
    /\ PipeAtRest
    /\ model_cache = NoCache
    /\ models = <<>>
    /\ loads = [k \in Keys |-> 0]
    /\ inv = InvIdle
    /\ running = 0
    /\ subject \in StepSeries
    /\ outcome = NoTables
    /\ step = "minutely"

\* lines 449-456
RollUpMinutes ==
    /\ step = "minutely"
    /\ outcome' = [outcome EXCEPT !.minutely = MinutelySteps(subject)]
    /\ step' = "hourly"
    /\ UNCHANGED <<restVars, subject>>

\* lines 458-462
RollUpHours ==
    /\ step = "hourly"
    /\ outcome' = [outcome EXCEPT !.hourly = HourlySteps(outcome.minutely)]
    /\ step' = "daily"
    /\ UNCHANGED <<restVars, subject>>

\* lines 464-468
RollUpDays ==
    /\ step = "daily"
    /\ outcome' = [outcome EXCEPT !.daily = DailySteps(outcome.minutely)]
    /\ step' = "rolled_up"
    /\ UNCHANGED <<restVars, subject>>

NextRollUp == RollUpMinutes \/ RollUpHours \/ RollUpDays

SpecRollUp == InitRollUp /\ [][NextRollUp]_vars

\* the total of table over the buckets S, counted bucket by bucket
RECURSIVE Total(_, _)
Total(table, S) ==
    IF S = {} THEN 0
    ELSE LET b == MinOf(S) IN table[b] + Total(table, S \ {b})

HoursOfDay(d) ==
    {h \in DOMAIN outcome.hourly : h * HourMs >= d * DayMs /\ (h + 1) * HourMs <= (d + 1) * DayMs}

MinutesOfHour(h) ==
    {m \in DOMAIN outcome.minutely :
        m * MinuteMs >= h * HourMs /\ (m + 1) * MinuteMs <= (h + 1) * HourMs}

\* the rows with a step count whose timestamp lies in minute m
RowsInMinute(m) ==
    {i \in RowsOf(subject) : SampleTimes[i] >= m * MinuteMs /\ SampleTimes[i] < (m + 1) * MinuteMs}

FirstSample == MinOf({SampleTimes[i] : i \in RowsOf(subject)})
LastSample == MaxOf({SampleTimes[i] : i \in RowsOf(subject)})

\* C14: the aggregation of step counts is a strict coarsening: each day
\* bucket's total is the sum of the hour buckets it contains, each hour
\* bucket's total is the sum of the minute buckets it contains, and every
\* minute between the first and the last sample without a sample counts zero
\* steps.
C14_RollUpsAreCoarsenings ==
    step = "rolled_up" =>
        /\ \A d \in DOMAIN outcome.daily :
            outcome.daily[d] = Total(outcome.hourly, HoursOfDay(d))
        /\ \A h \in DOMAIN outcome.hourly :
            outcome.hourly[h] = Total(outcome.minutely, MinutesOfHour(h))
        /\ \A m \in (FirstSample \div MinuteMs)..(LastSample \div MinuteMs) :
            /\ m \in DOMAIN outcome.minutely
            /\ RowsInMinute(m) = {} => outcome.minutely[m] = 0

\* a series over two days has been rolled up: both days and three hours count
\* steps, and a minute in between has no sample
C14_Witness ==
    /\ step = "rolled_up"
    /\ Cardinality(DOMAIN outcome.daily) = 2
    /\ \A d \in DOMAIN outcome.daily : outcome.daily[d] > 0
    /\ Cardinality({h \in DOMAIN outcome.hourly : outcome.hourly[h] > 0}) >= 3
    /\ \E m \in DOMAIN outcome.minutely : RowsInMinute(m) = {}
    /\ \E m \in DOMAIN outcome.minutely : outcome.minutely[m] > MaxSteps

-----------------------------------------------------------------------------
(* convert_pandas_to_native, lines 86-99, studied alone                    *)
(*                                                                         *)
(* A value is [tag, kids]: "scalar" (a Python number, string or boolean),  *)
(* "npscalar" (a numpy scalar), "array" (numpy.ndarray), "series",         *)
(* "table" (a DataFrame of one column, kids its cells), "dict" (kids its   *)
(* values), "list" or "tuple".  "raised" stands for the ValueError that    *)
(* leaves the call.                                                        *)

Scalar == [tag |-> "scalar", kids |-> <<>>]
NpScalar == [tag |-> "npscalar", kids |-> <<>>]
Raised == [tag |-> "raised", kids |-> <<>>]

Containers == {"array", "series", "table", "dict", "list", "tuple"}

\* the containers whose elements are all in S
Nodes(S) ==
    {[tag |-> t, kids |-> k] : t \in Containers, k \in UNION {[1..n -> S] : n \in 0..MaxKids}}

Leaves == {Scalar, NpScalar}

Flat == Leaves \cup Nodes(Leaves)

\* the values handed to the function: containers of containers of scalars
NestedValues == Flat \cup Nodes(Flat)

\* Series.to_dict and DataFrame.to_dict box a numpy scalar as a Python
\* scalar and hand out any other element as it is
Boxed(v) == IF v.tag = "npscalar" THEN Scalar ELSE v

\* line 95: ndarray.item() gives the element of an array of size 1 and raises
\* ValueError for any other size
Item(v) ==
    IF v.tag = "npscalar" THEN Scalar
    ELSE IF Len(v.kids) = 1 THEN Boxed(v.kids[1]) ELSE Raised

\* lines 84-97
RECURSIVE convert_pandas_to_native(_)
convert_pandas_to_native(obj) ==
    IF obj.tag = "series"
    THEN [tag |-> "dict", kids |-> [i \in 1..Len(obj.kids) |-> Boxed(obj.kids[i])]]
    ELSE IF obj.tag = "table"
    THEN [tag |-> "list",
          kids |-> [i \in 1..Len(obj.kids) |->
                        [tag |-> "dict", kids |-> <<Boxed(obj.kids[i])>>]]]
    ELSE IF obj.tag \in {"dict", "list"}
    THEN LET kids == [i \in 1..Len(obj.kids) |-> convert_pandas_to_native(obj.kids[i])]
         IN IF \E i \in 1..Len(kids) : kids[i] = Raised
            THEN Raised
            ELSE [tag |-> obj.tag, kids |-> kids]
    ELSE IF obj.tag \in {"npscalar", "array"}
    THEN Item(obj)
    ELSE obj

InitConvert ==
    /\ PipeAtRest
    /\ model_cache = NoCache
    /\ models = <<>>
    /\ loads = [k \in Keys |-> 0]
    /\ inv = InvIdle
    /\ running = 0
    /\ subject \in NestedValues
    /\ outcome = <<>>
    /\ step = "convert"

\* lines 478-485: one summary is converted for the report
Convert ==
    /\ step = "convert"
    /\ outcome' = convert_pandas_to_native(subject)
    /\ step' = "converted"
    /\ UNCHANGED <<restVars, subject>>

NextConvert == Convert

SpecConvert == InitConvert /\ [][NextConvert]_vars

\* a plain mapping or sequence of primitive values, at every depth
RECURSIVE Native(_)
Native(v) ==
    \/ v.tag = "scalar"
    \/ /\ v.tag \in {"dict", "list", "tuple"}
       /\ \A i \in 1..Len(v.kids) : Native(v.kids[i])

\* C15: for every input value built from mappings, lists, tuples, series,
\* tables, arrays and scalars, convert_pandas_to_native returns a value made
\* only of plain mappings and sequences of primitive numbers, strings and
\* booleans, at every nesting depth, the elements of a converted series or
\* table included.
C15_ConvertedIsNative ==
    step = "converted" => Native(outcome)

-----------------------------------------------------------------------------
(* The frame handed to the classifier *)

\* C16: whenever process_csv_data invokes the classifier for the rf variant,
\* the frame passed to predict_from_frame has at least 50 rows, for every
\* combination of start/end trimming, exclude-first-last and
\* exclude-wear-below policies.
C16_RFPredictFrameHasMinimum ==
    (predict_arg.called /\ request.model_type = "rf")
        => Len(predict_arg.frame) >= MIN_RF

-----------------------------------------------------------------------------
(* What the caller of upload_csv receives *)

\* C17: every path listed in output_files of a successful upload_csv response
\* refers to a file that still exists at the moment the response is returned
\* to the caller.
C17_OutputFilesExist ==
    (pc = "done" /\ entry = "upload_csv" /\ response.success)
        => response.output_files \subseteq files

\* the exception of the invocation has left the endpoint: no ProcessingResponse
\* was built
Surfaced == exc # NoExc /\ response = NoResponse

\* C18: upload_csv rejects an upload whose filename does not end in '.csv' by
\* surfacing the HTTP 400 error "File must be a CSV file" to the caller,
\* without reading or processing the file; it is not turned into a normal
\* ProcessingResponse.
C18_NonCsvFilenameIsHttpError ==
    (pc = "done" /\ entry = "upload_csv" /\ input.filename # "data.csv")
        => /\ exc = Raise("HTTPException", "filename")
           /\ Surfaced
           /\ temp_dir = "none"

====
